---- MODULE Spec2Model ----
(***************************************************************************)
(* gha-otel (src/main_otel.py): one execution of main().  The program     *)
(* reads the runs of a GitHub Actions workflow, the jobs of every run and  *)
(* the steps of every job, and re-emits them as a run -> job -> step tree  *)
(* of OpenTelemetry spans.                                                 *)
(*                                                                         *)
(* One action per function call or loop iteration of the source.  The      *)
(* records the GitHub client yields (runs, jobs with their steps, check    *)
(* runs and annotations) are inputs, drawn when the code iterates them.    *)
(* Timestamps are whole seconds; convert_time turns them into nanoseconds. *)
(***************************************************************************)
EXTENDS Integers, Sequences, FiniteSets, TLC

\* ---------------------------------------------------------------- bounds
MaxRuns == 2        \* runs the workflow yields
MaxJobs == 2        \* jobs yielded over all runs
MaxSteps == 2       \* steps held by the jobs of one execution

\* -------------------------------------------------------------- constants
None == -1                      \* Python None where a number is expected
NoStr == "None"                 \* Python None where a string is expected
NoSpan == 0                     \* no span: the empty ambient context
NanosPerSecond == 1000000000    \* the 1e9 of convert_time

VARIABLES
    pc,          \* where main() is; "exit_*" after sys.exit(), "raise_*" after an uncaught exception
    kwargs,      \* the keyword arguments main() was called with
    args,        \* what get_args returned
    api_called,  \* a request has been sent to the GitHub API
    repo,        \* main's repo: the name of the repository get_repo returned
    workflow,    \* main's workflow: the name of the workflow get_workflow returned
    spans,       \* every span the tracer has started, by span id
    current,     \* the tracer's ambient current span (the context variable)
    held,        \* run_span_context_manager: the entered, not exited context manager
    runs,        \* the runs the workflow yielded, in order
    run_spans,   \* process_runs' run_spans (span ids)
    run_jobs,    \* per run, the jobs run.jobs() yielded, in order
    all_jobs,    \* process_jobs' all_jobs
    job_spans,   \* process_jobs' job_spans (span ids)
    all_steps,   \* process_steps' all_steps
    ri,          \* process_jobs: position in zip(runs, run_spans)
    ji,          \* process_steps: position in zip(jobs, job_spans)
    si           \* process_steps: position in job.steps

vars == <<pc, kwargs, args, api_called, repo, workflow, spans, current, held, runs,
          run_spans, run_jobs, all_jobs, job_spans, all_steps, ri, ji, si>>

\* ------------------------------------------------------------ helpers
Min(a, b) == IF a < b THEN a ELSE b

RECURSIVE Flatten(_)
Flatten(ss) == IF ss = <<>> THEN <<>> ELSE Head(ss) \o Flatten(Tail(ss))

RECURSIVE SumLen(_)
SumLen(ss) == IF ss = <<>> THEN 0 ELSE Len(Head(ss)) + SumLen(Tail(ss))

SeqsUpTo(S, n) == UNION {[1..m -> S] : m \in 0..n}

\* ------------------------------------------------------ time normalizer
\* convert_time: int(time.timestamp() * 1e9).  On None the attribute lookup
\* time.timestamp raises AttributeError.
convert_time_raises(time) == time = None

convert_time(time) == time * NanosPerSecond

\* Python truthiness of an optional integer: None and 0 are false.
Truthy(x) == x # None /\ x # 0

\* ---------------------------------------------------------------- inputs
\* The keyword arguments of main(): the argparse namespace of lines 359-371.
Kwargs ==
    [repo : {NoStr, "repo"}, workflow : {NoStr, "ci"}, org : {NoStr, "octo"},
     start : {NoStr, "2024-01-01"}, end : {NoStr, "2024-01-31"},
     skipsteps : BOOLEAN]

NoKwargs ==
    [repo |-> NoStr, workflow |-> NoStr, org |-> NoStr, start |-> NoStr,
     end |-> NoStr, skipsteps |-> FALSE]

Login == "octo"     \* g.get_user().login
NoArgs ==
    [org |-> NoStr, repo_name |-> NoStr, workflow_name |-> NoStr,
     start |-> NoStr, end |-> NoStr, skip |-> FALSE]

\* The names of the workflows repo.get_workflows() yields.
WorkflowLists == SeqsUpTo({"ci", "deploy"}, 2)

Times == {1, 2}
Conclusions == {"success", "failure", NoStr}

\* A WorkflowRun as the code reads it (lines 165-196).
RunFields ==
    [status : {"completed", "in_progress"}, conclusion : Conclusions,
     run_attempt : {None, 2}, run_started_at : {1}, updated_at : Times]

PlainRun ==
    [status |-> "completed", conclusion |-> "success", run_attempt |-> None,
     run_started_at |-> 1, updated_at |-> 2]

\* A step of job.steps as the code reads it (lines 307-331).
StepFields ==
    [conclusion : Conclusions, started_at : {None, 1}, completed_at : {None, 2}]

PlainStep == [conclusion |-> "success", started_at |-> 1, completed_at |-> 2]

\* A WorkflowJob as the code reads it (lines 227-290), with what the check-run
\* lookup of its id does: check_run "error" when repo.get_check_run raises,
\* annotations the number of annotations the check run lists, and listing
\* "error" when fetching a page of that lazily paginated list raises.
JobFields ==
    [conclusion : Conclusions, run_attempt : {None, 2},
     created_at : {None, 1}, started_at : {None, 1}, completed_at : {None, 2},
     check_run : {"ok", "error"}, annotations : {0, 1}, listing : {"ok", "error"}]

PlainJob ==
    [conclusion |-> "success", run_attempt |-> None, created_at |-> 1,
     started_at |-> 1, completed_at |-> 2, check_run |-> "ok",
     annotations |-> 0, listing |-> "ok"]

\* ---------------------------------------------------------------- tracer
\* Span.end(end_time) of the SDK: time_ns() when no end time is given.
WallClock == 2 * NanosPerSecond + 1

\* tracer.start_span: a span that is recording and has not ended.  run_id,
\* job_id and run_attempt are the attributes run.id / job.run_id, job.id and
\* run.run_attempt / job.run_attempt (0 and None: not set); step_of is the
\* id of the job whose steps list the span's step was read from.
NewSpan(kind, parent, start_time) ==
    [kind |-> kind, parent |-> parent, start_time |-> start_time,
     end_time |-> None, ends |-> 0, run_id |-> 0, job_id |-> 0, step_of |-> 0,
     run_attempt |-> None, error |-> FALSE, error_message |-> NoStr,
     status |-> "UNSET", events |-> 0]

SpanEnd(span, end_time) ==
    [span EXCEPT !.end_time = IF end_time = None THEN WallClock ELSE end_time,
                 !.ends = @ + 1]

\* set_status(StatusCode.ERROR, msg); set_attribute("error", True);
\* set_attribute("error.message", msg)
SetError(span, msg) ==
    [span EXCEPT !.status = "ERROR", !.error = TRUE, !.error_message = msg]

\* start_as_current_span(name, start_time=..., end_on_exit=False) of line 173
\* passes no context: the parent is the ambient current span.
RunParent(cur) == cur

\* The parent a job span would get were it started without context=.
JobParentAmbient(parent_span, cur) == cur

\* context=trace.set_span_in_context(parent_span), lines 236 and 314.
JobParent(parent_span, cur) == parent_span

StepParent(parent_span, cur) == parent_span

\* ----------------------------------------------------------------- main
Init ==
    /\ pc = "get_args"
    /\ kwargs \in Kwargs
    /\ args = NoArgs
    /\ api_called = FALSE
    /\ repo = NoStr
    /\ workflow = NoStr
    /\ spans = <<>>
    /\ current = NoSpan
    /\ held = None
    /\ runs = <<>>
    /\ run_spans = <<>>
    /\ run_jobs = <<>>
    /\ all_jobs = <<>>
    /\ job_spans = <<>>
    /\ all_steps = <<>>
    /\ ri = 1
    /\ ji = 1
    /\ si = 1

\* line 116
HalfRange(start, end) ==
    (start = NoStr /\ end # NoStr) \/ (start # NoStr /\ end = NoStr)

\* get_args, lines 95-126.  user.login of line 109 is a request to the API.
GetArgs ==
    /\ pc = "get_args"
    /\ IF kwargs.repo = NoStr \/ kwargs.workflow = NoStr
       THEN /\ pc' = "exit_get_args"
            /\ UNCHANGED <<args, api_called>>
       ELSE /\ api_called' = (api_called \/ kwargs.org = NoStr)
            /\ IF HalfRange(kwargs.start, kwargs.end)
               THEN /\ pc' = "exit_get_args"
                    /\ UNCHANGED args
               ELSE /\ pc' = "get_repo"
                    /\ args' = [org |-> IF kwargs.org = NoStr THEN Login ELSE kwargs.org,
                                repo_name |-> kwargs.repo,
                                workflow_name |-> kwargs.workflow,
                                start |-> kwargs.start, end |-> kwargs.end,
                                skip |-> kwargs.skipsteps]
    \* kwargs is not read again once get_args has returned
    /\ kwargs' = IF pc' = "get_repo" THEN NoKwargs ELSE kwargs
    /\ UNCHANGED <<repo, workflow, spans, current, held, runs, run_spans,
                   run_jobs, all_jobs, job_spans, all_steps, ri, ji, si>>

\* get_repo without the sys.exit() of line 137: main goes on without a repo.
AfterGetRepoNoExit(found) == "get_workflow"

\* Where get_repo leaves main: the except clause of lines 135-137 exits.
AfterGetRepo(found) == IF found THEN "get_workflow" ELSE "exit_get_repo"

\* get_repo, lines 129-137: GithubException becomes sys.exit().
GetRepo ==
    /\ pc = "get_repo"
    /\ api_called' = TRUE
    /\ \E found \in BOOLEAN :
          /\ pc' = AfterGetRepo(found)
          /\ repo' = IF found THEN args.repo_name ELSE NoStr
    /\ UNCHANGED <<kwargs, args, workflow, spans, current, held, runs, run_spans,
                   run_jobs, all_jobs, job_spans, all_steps, ri, ji, si>>

\* The scan of lines 144-148: the first workflow of that name wins.
WorkflowFound(workflows, workflow_name) ==
    \E i \in 1..Len(workflows) : workflows[i] = workflow_name

\* Where get_workflow leaves main: lines 149-151 exit when nothing matched.
AfterGetWorkflow(found) == IF found THEN "process_runs" ELSE "exit_get_workflow"

\* get_workflow, lines 140-151.
GetWorkflow ==
    /\ pc = "get_workflow"
    /\ \E workflows \in WorkflowLists :
          LET found == WorkflowFound(workflows, args.workflow_name)
          IN  /\ pc' = AfterGetWorkflow(found)
              /\ workflow' = IF found THEN args.workflow_name ELSE NoStr
    /\ UNCHANGED <<kwargs, args, api_called, repo, spans, current, held, runs,
                   run_spans, run_jobs, all_jobs, job_spans, all_steps, ri, ji, si>>

\* ------------------------------------------------------------ process_runs
\* The completion time were the status of the run not looked at.
RunCompletedAtAnyStatus(run) == convert_time(run.updated_at)

\* lines 166-169
RunCompletedAt(run) ==
    IF run.status = "completed" THEN convert_time(run.updated_at) ELSE None

\* The attribute value were run.run_attempt passed on as it is.
RunAttemptAsIs(run_attempt) == run_attempt

\* lines 186-189
RunAttempt(run_attempt) == IF run_attempt = None THEN 1 ELSE run_attempt

\* line 198
RunFailed(conclusion) == conclusion = "failure"

\* The runs explored: every status, conclusion and updated_at with the attempt
\* number absent, and the plain run with an attempt number.
RunChoices ==
    {f \in RunFields : f.run_attempt = None \/ [f EXCEPT !.run_attempt = None] = PlainRun}

IsPlainRun(run) ==
    /\ run.status = PlainRun.status
    /\ run.conclusion = PlainRun.conclusion
    /\ run.run_attempt = PlainRun.run_attempt
    /\ run.run_started_at = PlainRun.run_started_at
    /\ run.updated_at = PlainRun.updated_at

\* lines 155-162: workflow.get_runs(), filtered by created="start..end" when
\* a range was given.  start and end are not read again.
ProcessRunsFetch ==
    /\ pc = "process_runs"
    /\ pc' = "process_runs_loop"
    /\ args' = [args EXCEPT !.start = NoStr, !.end = NoStr]
    /\ runs' = <<>>
    /\ run_spans' = <<>>
    /\ UNCHANGED <<kwargs, api_called, repo, workflow, spans, current, held, run_jobs,
                   all_jobs, job_spans, all_steps, ri, ji, si>>

\* One iteration of the loop of lines 164-207 over the next run the workflow
\* yields.  Rebinding run_span_context_manager (line 173) drops the context
\* manager of the previous iteration; when that one was entered and never
\* exited (its run was not completed) the runtime finalizes it when it sees
\* fit: at once under reference counting (finalizeNow), which closes the
\* generator and detaches the context it attached, or not before the
\* execution is over under a collector that has not run by then.
ProcessRunsNext ==
    /\ pc = "process_runs_loop"
    /\ Len(runs) < MaxRuns
    /\ \E fields \in RunChoices, finalizeNow \in IF held = None THEN {TRUE} ELSE BOOLEAN :
          LET run == fields @@ [id |-> Len(runs) + 1]
              cur0 == IF held # None /\ finalizeNow THEN held ELSE current
              run_start_time == convert_time(run.run_started_at)
              run_completed_at == RunCompletedAt(run)
              id == Len(spans) + 1
              opened == [NewSpan("run", RunParent(cur0), run_start_time)
                           EXCEPT !.run_id = run.id,
                                  !.run_attempt = RunAttempt(run.run_attempt)]
              marked == IF RunFailed(run.conclusion)
                        THEN SetError(opened, "Run failed") ELSE opened
              closes == Truthy(run_completed_at)
          IN  /\ runs' = Append(runs, run)
              /\ run_spans' = Append(run_spans, id)
              /\ spans' = Append(spans, IF closes THEN SpanEnd(marked, run_completed_at)
                                                  ELSE marked)
              \* __exit__ (line 207) detaches; without it the span stays current
              /\ current' = IF closes THEN cur0 ELSE id
              /\ held' = IF closes THEN None ELSE cur0
    /\ UNCHANGED <<pc, kwargs, args, api_called, repo, workflow, run_jobs, all_jobs, job_spans,
                   all_steps, ri, ji, si>>

\* The workflow yields no further run: lines 209-211.  The locals of
\* process_runs are dropped, run_span_context_manager among them.
ProcessRunsReturn ==
    /\ pc = "process_runs_loop"
    /\ pc' = "process_jobs"
    /\ \E finalizeNow \in IF held = None THEN {TRUE} ELSE BOOLEAN :
          current' = IF held # None /\ finalizeNow THEN held ELSE current
    /\ held' = None
    /\ run_jobs' = [i \in 1..Len(runs) |-> <<>>]
    /\ ri' = 1
    /\ UNCHANGED <<kwargs, args, api_called, repo, workflow, spans, runs, run_spans, all_jobs,
                   job_spans, all_steps, ji, si>>

\* ------------------------------------------------------------ process_jobs
\* zip(a, b) stops with the shorter list.
ZipLen(a, b) == Min(Len(a), Len(b))

\* A job with any timestamp absent aborts at lines 227-229.
JobTimesRaise(job) ==
    \/ convert_time_raises(job.started_at)
    \/ convert_time_raises(job.completed_at)
    \/ convert_time_raises(job.created_at)

\* lines 254-257
JobAttempt(run_attempt) == IF run_attempt = None THEN 1 ELSE run_attempt

\* A job taken for failed whenever it did not succeed.
JobFailedUnlessSuccess(conclusion) == conclusion # "success"

\* line 284
JobFailed(conclusion) == conclusion = "failure"

\* A job list that leaves out the jobs whose check run could not be read.
AllJobsAppendUnlessError(jobs, job) ==
    IF job.check_run = "error" THEN jobs ELSE Append(jobs, job)

\* line 293
AllJobsAppend(jobs, job) == Append(jobs, job)

\* fetch_annotations, lines 349-355: get_check_run sends a request and may
\* raise; get_annotations only builds the paginated list, whose pages are
\* requested when line 273 iterates it.
fetch_annotations(job) ==
    IF job.check_run = "error"
    THEN [annotations |-> 0, pages_raise |-> FALSE, error |-> "Test error"]
    ELSE [annotations |-> job.annotations, pages_raise |-> job.listing = "error",
          error |-> NoStr]

\* Python truthiness of an optional string (line 270).
TruthyStr(x) == x # NoStr /\ x # ""

JobsYielded == SumLen(run_jobs)

RECURSIVE StepsOf(_)
StepsOf(jobs) == IF jobs = <<>> THEN 0 ELSE Len(Head(jobs).steps) + StepsOf(Tail(jobs))

RECURSIVE StepsIn(_)
StepsIn(jobss) == IF jobss = <<>> THEN 0 ELSE StepsOf(Head(jobss)) + StepsIn(Tail(jobss))

StepsHeld == StepsIn(run_jobs)

IsPlainJob(job) ==
    /\ job.conclusion = PlainJob.conclusion
    /\ job.run_attempt = PlainJob.run_attempt
    /\ job.created_at = PlainJob.created_at
    /\ job.started_at = PlainJob.started_at
    /\ job.completed_at = PlainJob.completed_at
    /\ job.check_run = PlainJob.check_run
    /\ job.annotations = PlainJob.annotations
    /\ job.listing = PlainJob.listing

IsPlainStep(step) ==
    /\ step.conclusion = PlainStep.conclusion
    /\ step.started_at = PlainStep.started_at
    /\ step.completed_at = PlainStep.completed_at

\* The job records explored: one outcome of the check-run lookup per record
\* (nothing is listed after a failed lookup or a failed page), every
\* conclusion with every such outcome, and the plain job with an attempt
\* number or with any of its timestamps absent.
JobRecords ==
    {f \in JobFields :
        /\ (f.check_run = "error" => f.annotations = 0 /\ f.listing = "ok")
        /\ (f.listing = "error" => f.annotations = 0)
        /\ LET times == <<f.created_at, f.started_at, f.completed_at>>
               lookup == <<f.conclusion, f.check_run, f.annotations, f.listing>>
           IN  \/ f.run_attempt = None /\ times = <<1, 1, 2>>
               \/ [f EXCEPT !.run_attempt = None] = PlainJob
               \/ f.run_attempt = None /\ lookup = <<"success", "ok", 0, "ok">>}

\* The step records explored: every conclusion, and the plain step with any
\* of its timestamps absent.
StepRecords ==
    {f \in StepFields :
        \/ <<f.started_at, f.completed_at>> = <<1, 2>>
        \/ f.conclusion = "success"}

\* The step lists explored, by the number of steps still available: nothing
\* reads a step that follows a step with an absent timestamp (the loop has
\* aborted by then), so such a step is followed by plain steps only.
StepLists ==
    [cap \in 0..MaxSteps |->
        {ss \in SeqsUpTo(StepRecords, cap) :
            \A i, j \in 1..Len(ss) :
               (i < j /\ (convert_time_raises(ss[i].started_at)
                             \/ convert_time_raises(ss[i].completed_at)))
                  => IsPlainStep(ss[j])}]

RichRuns == \E n \in 1..Len(runs) : ~IsPlainRun(runs[n])

RichJobs ==
    \E r \in 1..Len(run_jobs) :
       \E n \in 1..Len(run_jobs[r]) : ~IsPlainJob(run_jobs[r][n])

RichSteps ==
    \E r \in 1..Len(run_jobs) :
       \E n \in 1..Len(run_jobs[r]) :
          \E m \in 1..Len(run_jobs[r][n].steps) : ~IsPlainStep(run_jobs[r][n].steps[m])

\* The jobs explored, each with its steps.  The code reads the fields of
\* runs, of jobs and of steps independently of each other, so the inputs vary
\* one collection at a time and hold the collections below it fixed: once a
\* run differs from the plain run every run has one plain job, once a job
\* differs from the plain job (or a run does) every further job has one plain
\* step, and once a step differs from the plain step every further job is plain.
JobChoices ==
    LET cap == MaxSteps - StepsHeld
        oneStep == IF cap > 0 THEN {<<PlainStep>>} ELSE {<<>>}
    IN  IF RichRuns
        THEN IF Len(run_jobs[ri]) = 0 THEN {PlainJob} \X oneStep ELSE {}
        ELSE IF RichSteps THEN {PlainJob} \X StepLists[cap]
        ELSE IF RichJobs THEN JobRecords \X oneStep
        ELSE ((JobRecords \ {PlainJob}) \X oneStep)
                \cup ({PlainJob} \X StepLists[cap])

\* Whether run.jobs() may be exhausted at this point of the inputs explored.
JobsMayEnd == RichRuns => (Len(run_jobs[ri]) > 0 \/ JobsYielded >= MaxJobs)

\* One iteration of the loops of lines 223-294 over the next job run.jobs()
\* yields for the run at position ri.
ProcessJobsNext ==
    /\ pc = "process_jobs"
    /\ ri <= ZipLen(runs, run_spans)
    /\ JobsYielded < MaxJobs
    /\ \E choice \in JobChoices :
          LET fields == choice[1]
              steplist == choice[2]
              run == runs[ri]
              parent_span == run_spans[ri]
              jid == JobsYielded + 1
              job == fields @@
                     [id |-> jid, run_id |-> run.id,
                      steps |-> [n \in 1..Len(steplist) |->
                                   steplist[n] @@ [number |-> n, job_id |-> jid]]]
              job_started_at == convert_time(job.started_at)
              job_completed_at == convert_time(job.completed_at)
              job_created_at == convert_time(job.created_at)
              id == Len(spans) + 1
              opened == [NewSpan("job", JobParent(parent_span, current), job_started_at)
                           EXCEPT !.job_id = job.id, !.run_id = job.run_id,
                                  !.run_attempt = JobAttempt(job.run_attempt)]
              fetched == fetch_annotations(job)
              annotated == IF TruthyStr(fetched.error) THEN opened
                           ELSE [opened EXCEPT !.events = fetched.annotations]
              marked == IF JobFailed(job.conclusion)
                        THEN SetError(annotated, "Job failed") ELSE annotated
          IN  /\ run_jobs' = [run_jobs EXCEPT ![ri] = Append(@, job)]
              /\ IF JobTimesRaise(job)
                 THEN /\ pc' = "raise_process_jobs"
                      /\ UNCHANGED <<spans, current, all_jobs, job_spans>>
                 ELSE IF ~TruthyStr(fetched.error) /\ fetched.pages_raise
                 THEN \* the exception leaves line 273: the span stays open and current
                      /\ pc' = "raise_process_jobs"
                      /\ spans' = Append(spans, opened)
                      /\ current' = id
                      /\ UNCHANGED <<all_jobs, job_spans>>
                 ELSE /\ pc' = pc
                      /\ spans' = Append(spans, SpanEnd(marked, job_completed_at))
                      /\ current' = current
                      /\ all_jobs' = AllJobsAppend(all_jobs, job)
                      /\ job_spans' = Append(job_spans, id)
    /\ UNCHANGED <<kwargs, args, api_called, repo, workflow, held, runs, run_spans,
                   all_steps, ri, ji, si>>

\* run.jobs() yields no further job: the outer loop takes the next pair.
ProcessJobsNextRun ==
    /\ pc = "process_jobs"
    /\ ri <= ZipLen(runs, run_spans)
    /\ JobsMayEnd
    /\ ri' = ri + 1
    /\ UNCHANGED <<pc, kwargs, args, api_called, repo, workflow, spans, current, held, runs, run_spans, run_jobs, all_jobs, job_spans, all_steps, ji, si>>

\* lines 296-298
ProcessJobsReturn ==
    /\ pc = "process_jobs"
    /\ ri > ZipLen(runs, run_spans)
    /\ pc' = "skip_steps"
    /\ UNCHANGED <<kwargs, args, api_called, repo, workflow, spans, current, held, runs,
                   run_spans, run_jobs, all_jobs, job_spans, all_steps, ri, ji, si>>

\* Step processing that does not look at the flag.
RunsStepsAlways(skip) == TRUE

\* line 89
RunsSteps(skip) == skip = FALSE

SkipSteps ==
    /\ pc = "skip_steps"
    /\ pc' = IF RunsSteps(args.skip) THEN "process_steps" ELSE "done"
    /\ ji' = 1
    /\ si' = 1
    /\ UNCHANGED <<kwargs, args, api_called, repo, workflow, spans, current, held, runs,
                   run_spans, run_jobs, all_jobs, job_spans, all_steps, ri>>

\* ----------------------------------------------------------- process_steps
\* lines 307-308
StepTimesRaise(step) ==
    convert_time_raises(step.started_at) \/ convert_time_raises(step.completed_at)

\* line 327
StepFailed(conclusion) == conclusion = "failure"

\* One iteration of the loops of lines 304-338.
ProcessStepsNext ==
    /\ pc = "process_steps"
    /\ ji <= ZipLen(all_jobs, job_spans)
    /\ si <= Len(all_jobs[ji].steps)
    /\ LET job == all_jobs[ji]
           parent_span == job_spans[ji]
           step == job.steps[si]
           step_started_at == convert_time(step.started_at)
           step_completed_at == convert_time(step.completed_at)
           opened == [NewSpan("step", StepParent(parent_span, current), step_started_at)
                        EXCEPT !.step_of = job.id]
           marked == IF StepFailed(step.conclusion)
                     THEN SetError(opened, "Step failed") ELSE opened
       IN  IF StepTimesRaise(step)
           THEN /\ pc' = "raise_process_steps"
                /\ UNCHANGED <<spans, all_steps, si>>
           ELSE /\ pc' = pc
                /\ spans' = Append(spans, SpanEnd(marked, step_completed_at))
                /\ all_steps' = Append(all_steps, step)
                /\ si' = si + 1
    /\ UNCHANGED <<kwargs, args, api_called, repo, workflow, current, held, runs,
                   run_spans, run_jobs, all_jobs, job_spans, ri, ji>>

ProcessStepsNextJob ==
    /\ pc = "process_steps"
    /\ ji <= ZipLen(all_jobs, job_spans)
    /\ si > Len(all_jobs[ji].steps)
    /\ ji' = ji + 1
    /\ si' = 1
    /\ UNCHANGED <<pc, kwargs, args, api_called, repo, workflow, spans, current, held, runs, run_spans, run_jobs, all_jobs, job_spans, all_steps, ri>>

\* lines 340-342, then line 92
ProcessStepsReturn ==
    /\ pc = "process_steps"
    /\ ji > ZipLen(all_jobs, job_spans)
    /\ pc' = "done"
    /\ UNCHANGED <<kwargs, args, api_called, repo, workflow, spans, current, held, runs,
                   run_spans, run_jobs, all_jobs, job_spans, all_steps, ri, ji, si>>

Next ==
    \/ GetArgs
    \/ GetRepo
    \/ GetWorkflow
    \/ ProcessRunsFetch
    \/ ProcessRunsNext
    \/ ProcessRunsReturn
    \/ ProcessJobsNext
    \/ ProcessJobsNextRun
    \/ ProcessJobsReturn
    \/ SkipSteps
    \/ ProcessStepsNext
    \/ ProcessStepsNextJob
    \/ ProcessStepsReturn

Spec == Init /\ [][Next]_vars

\* ================================================================ properties
\* The jobs run.jobs() has yielded so far, in order; a job's id is its
\* position in this list, a run's id its position in runs.
YieldedJobs == Flatten(run_jobs)

IsStepSpan(span) == span.kind = "step"

\* The step spans in the order they were started.
StepSpans == SelectSeq(spans, IsStepSpan)

SpansOfKind(kind) == {i \in 1..Len(spans) : spans[i].kind = kind}

\* C1: every job span has as its parent the span of the run that job belongs
\* to, and every step span the span of the job whose steps list it was read
\* from, whatever the ambient current span is.
C1_ParentLinks ==
    \A i \in 1..Len(spans) :
       LET span == spans[i]
       IN  /\ span.kind = "job" =>
                \E r \in 1..Len(run_jobs) :
                   /\ \E n \in 1..Len(run_jobs[r]) : run_jobs[r][n].id = span.job_id
                   /\ span.parent = run_spans[r]
                   /\ spans[span.parent].kind = "run"
                   /\ spans[span.parent].run_id = runs[r].id
           /\ span.kind = "step" =>
                /\ span.parent \in 1..Len(spans)
                /\ spans[span.parent].kind = "job"
                /\ spans[span.parent].job_id = span.step_of

\* Two runs with a job and a step each have been processed to the end while
\* the span of a run that was not completed is still the ambient span.
C1_Witness ==
    /\ pc = "done"
    /\ current # NoSpan
    /\ Len(job_spans) = 2
    /\ spans[job_spans[1]].parent # spans[job_spans[2]].parent
    /\ Len(StepSpans) = 2
    /\ StepSpans[1].parent = job_spans[1]
    /\ StepSpans[2].parent = job_spans[2]

\* C2: every run span is a top-level span (it has no parent), also when an
\* earlier run was not completed and its span was left open.
C2_RunSpansTopLevel ==
    \A n \in 1..Len(run_spans) : spans[run_spans[n]].parent = NoSpan

ErrorMarked(span, failed) ==
    /\ span.error = failed
    /\ (span.error_message # NoStr) = failed
    /\ (span.status = "ERROR") = failed

\* C3: a run span, and a job or step span that was ended, carries the error
\* attribute, an error message and the ERROR status exactly when the
\* conclusion of its run, job or step is "failure"; with any other
\* conclusion, the absent one included, it carries none of the three.
C3_ErrorIffFailure ==
    /\ \A n \in 1..Len(run_spans) :
          ErrorMarked(spans[run_spans[n]], runs[n].conclusion = "failure")
    /\ \A n \in 1..Len(job_spans) :
          ErrorMarked(spans[job_spans[n]], all_jobs[n].conclusion = "failure")
    /\ \A n \in 1..Len(all_steps) :
          ErrorMarked(StepSpans[n], all_steps[n].conclusion = "failure")

\* A failed job and a job without conclusion both have their spans.
C3_Witness ==
    \E n, m \in 1..Len(job_spans) :
       /\ all_jobs[n].conclusion = "failure"
       /\ spans[job_spans[n]].status = "ERROR"
       /\ all_jobs[m].conclusion = NoStr
       /\ spans[job_spans[m]].status = "UNSET"

\* C4: the span of a run whose status is "completed" has been ended exactly
\* once, at updated_at in nanoseconds (never at the wall clock); the span of a
\* run with any other status has not been ended, whatever its conclusion.
C4_RunSpanEnd ==
    \A n \in 1..Len(run_spans) :
       LET span == spans[run_spans[n]]
       IN  IF runs[n].status = "completed"
           THEN span.ends = 1 /\ span.end_time = runs[n].updated_at * NanosPerSecond
           ELSE span.ends = 0 /\ span.end_time = None

\* main is over with a completed run and a run in progress that has a
\* conclusion.
C4_Witness ==
    /\ pc = "done"
    /\ \E n, m \in 1..Len(run_spans) :
          /\ runs[n].status = "completed"
          /\ spans[run_spans[n]].ends = 1
          /\ runs[m].status = "in_progress"
          /\ runs[m].conclusion = "success"
          /\ spans[run_spans[m]].ends = 0

AnnotationLookupFails(job) == job.check_run = "error" \/ job.listing = "error"

\* C5: when the annotation lookup of a job fails for any reason,
\* fetch_annotations gives the empty list and an error string, and the job
\* span gets no annotation event and is ended, and the iteration reaches its
\* end (the job is in the job list), so that the jobs after it get their spans.
C5_AnnotationFailureIsolated ==
    \A n \in 1..Len(YieldedJobs) :
       LET job == YieldedJobs[n]
       IN  AnnotationLookupFails(job) /\ ~JobTimesRaise(job) =>
              /\ fetch_annotations(job).annotations = 0
              /\ fetch_annotations(job).error # NoStr
              /\ \E k \in 1..Len(all_jobs) : all_jobs[k].id = job.id
              /\ \E i \in SpansOfKind("job") :
                    /\ spans[i].job_id = job.id
                    /\ spans[i].events = 0
                    /\ spans[i].ends = 1

\* C6: when the repository or the workflow is not found main halts and no
\* span has been started at any point of the execution; a span is started
\* only after both lookups have succeeded.
C6_NoSpanOnFailedLookup ==
    /\ pc \in {"exit_get_repo", "exit_get_workflow"} =>
          spans = <<>> /\ current = NoSpan
    /\ spans # <<>> => repo # NoStr /\ workflow # NoStr

\* The repository was found, the workflow was not, and main has halted.
C6_Witness ==
    /\ pc = "exit_get_workflow"
    /\ repo # NoStr
    /\ workflow = NoStr
    /\ api_called

\* C7: whenever get_args halts the process (repo or workflow missing, or one
\* of start and end given without the other), no request has been sent to the
\* GitHub API, whether org was given or not.
C7_HaltBeforeApi == pc = "exit_get_args" => ~api_called

AfterProcessJobs == {"skip_steps", "process_steps", "raise_process_steps", "done"}

\* C8: when process_jobs has returned, every run has been asked for its jobs,
\* the job list holds the jobs of all runs in run-major, job-minor order, the
\* job-span list has the same length with the i-th span the one started for
\* the i-th job, and there is one job span per job; when process_steps has
\* returned, the step list holds the steps of all jobs in order and there is
\* one step span per step.
C8_OneSpanPerRecord ==
    /\ pc \in AfterProcessJobs =>
          /\ ri = Len(runs) + 1
          /\ all_jobs = YieldedJobs
          /\ Len(job_spans) = Len(all_jobs)
          /\ \A n \in 1..Len(job_spans) :
                /\ spans[job_spans[n]].kind = "job"
                /\ spans[job_spans[n]].job_id = all_jobs[n].id
          /\ Cardinality(SpansOfKind("job")) = Len(all_jobs)
    /\ pc = "done" /\ ~args.skip =>
          /\ ji = Len(all_jobs) + 1
          /\ all_steps = Flatten([n \in 1..Len(all_jobs) |-> all_jobs[n].steps])
          /\ Len(StepSpans) = Len(all_steps)
          /\ \A n \in 1..Len(all_steps) : StepSpans[n].step_of = all_steps[n].job_id

\* Two runs with one job each, every job with one step, processed to the end;
\* the check run of one job could not be read.
C8_Witness ==
    /\ pc = "done"
    /\ ~args.skip
    /\ Len(runs) = 2
    /\ Len(run_jobs[1]) = 1
    /\ Len(run_jobs[2]) = 1
    /\ run_jobs[2][1].check_run = "error"
    /\ Len(job_spans) = 2
    /\ Len(all_steps) = 2

\* What a step of main after process_jobs has returned leaves alone.
AfterJobsFrame ==
    pc \in {"skip_steps", "process_steps"} =>
       /\ run_spans' = run_spans
       /\ job_spans' = job_spans
       /\ \A i \in 1..Len(spans) : spans'[i] = spans[i]
       /\ \A i \in (Len(spans) + 1)..Len(spans') : spans'[i].kind = "step"
       /\ (args.skip => pc' = "done" /\ spans' = spans)

\* C9: with the skip-steps flag set no step span is ever started and main is
\* over once process_jobs has returned; with or without the flag, nothing
\* that happens after process_jobs has returned changes a run span or a job
\* span or the lists of them: only step spans are added.
C9_SkipSteps ==
    /\ [](args.skip => SpansOfKind("step") = {} /\ all_steps = <<>>)
    /\ [][AfterJobsFrame]_vars

\* main is over with the flag set, with jobs that have steps.
C9_Witness ==
    /\ pc = "done"
    /\ args.skip
    /\ Len(job_spans) = 2
    /\ StepsOf(all_jobs) = 2
    /\ SpansOfKind("step") = {}

\* C10: the run_attempt attribute of every run span and of every job span is
\* set: to the attempt number of the run or job when it has one, to 1 when it
\* has none.
C10_RunAttemptNeverAbsent ==
    \A i \in 1..Len(spans) :
       LET span == spans[i]
       IN  /\ span.kind = "run" =>
                /\ span.run_attempt # None
                /\ span.run_attempt = IF runs[span.run_id].run_attempt = None THEN 1
                                      ELSE runs[span.run_id].run_attempt
           /\ span.kind = "job" =>
                /\ span.run_attempt # None
                /\ span.run_attempt = IF YieldedJobs[span.job_id].run_attempt = None THEN 1
                                      ELSE YieldedJobs[span.job_id].run_attempt

\* A run with the attempt number 2 and a job of it without attempt number.
C10_Witness ==
    \E n \in 1..Len(job_spans) :
       /\ all_jobs[n].run_attempt = None
       /\ spans[job_spans[n]].run_attempt = 1
       /\ runs[all_jobs[n].run_id].run_attempt = 2
       /\ spans[spans[job_spans[n]].parent].run_attempt = 2

\* C11: convert_time does not fail on an absent timestamp, so a job with
\* started_at, completed_at or created_at absent does not abort process_jobs
\* (its iteration reaches its end and the job is in the job list), and a step
\* with started_at or completed_at absent does not abort process_steps.
C11_AbsentTimestampTolerated ==
    /\ \A n \in 1..Len(YieldedJobs) :
          LET job == YieldedJobs[n]
          IN  JobTimesRaise(job) =>
                 /\ ~convert_time_raises(job.started_at)
                 /\ ~convert_time_raises(job.completed_at)
                 /\ ~convert_time_raises(job.created_at)
                 /\ \E k \in 1..Len(all_jobs) : all_jobs[k].id = job.id
    /\ pc # "raise_process_steps"

====
